---- MODULE Spec2Model ----
(***************************************************************************)
(* The asynchronous Ghoti client (package ghoti, type Client): caller      *)
(* goroutines running Read / Write / Broadcast / Close, the background     *)
(* goroutine listen() with its dispatcher, the registry pendingRequests,   *)
(* the one-shot channel done, the WaitGroup wg and the TCP connection.     *)
(*                                                                         *)
(* Strings are sequences of one-character strings, so that formatting      *)
(* ("%03d"), slicing (message[1:4]) and strconv.Atoi are computed.         *)
(* Go scheduling is modelled by interleaving: one step per shared-memory,  *)
(* channel or network operation.  A select blocks only when none of its    *)
(* cases is ready on entry; the 5 second timer can fire only for a select  *)
(* that is blocked.                                                        *)
(***************************************************************************)
EXTENDS Integers, Sequences, FiniteSets, TLC

\* ------------------------------------------------------------- bounds
NumCallers    == 2    \* caller goroutines
MaxOps        == 2    \* Read/Write/Broadcast calls that register, in total
MaxInject     == 1    \* things the server does unasked: frames pushed, hang-up
MaxCloseCalls == 1    \* Close() calls made by callers, in total

\* ---------------------------------------------------- program constants
MinSlot    == 0
MaxSlot    == 999
MaxDataLen == 36

Listener == 0
Callers  == 1..NumCallers
Procs    == {Listener} \cup Callers

\* config.Auth().User(): the configured user name
User == <<"u">>

\* ------------------------------------------------------------ strings
Digits == <<"0", "1", "2", "3", "4", "5", "6", "7", "8", "9">>

IsDigit(c) == \E i \in 1..10 : Digits[i] = c

DigitVal(c) == (CHOOSE i \in 1..10 : Digits[i] = c) - 1

\* fmt.Sprintf("%03d", n) for 0 <= n <= 999
Fmt3(n) ==
    << Digits[(n \div 100) + 1],
       Digits[((n \div 10) % 10) + 1],
       Digits[(n % 10) + 1] >>

RECURSIVE DigitsVal(_)
DigitsVal(s) ==
    IF s = <<>> THEN 0
    ELSE 10 * DigitsVal(SubSeq(s, 1, Len(s) - 1)) + DigitVal(s[Len(s)])

\* strconv.Atoi: an optional sign, then one or more decimal digits
Atoi(s) ==
    LET signed == Len(s) > 0 /\ s[1] \in {"+", "-"}
        body   == IF signed THEN Tail(s) ELSE s
    IN  IF Len(body) = 0 \/ ~(\A i \in 1..Len(body) : IsDigit(body[i]))
        THEN [ok |-> FALSE, val |-> 0]
        ELSE [ok |-> TRUE,
              val |-> IF signed /\ s[1] = "-" THEN 0 - DigitsVal(body)
                      ELSE DigitsVal(body)]

\* s[i:] of Go, with i counted from 0
From(s, i) == SubSeq(s, i + 1, Len(s))

\* strings.Split(s, sep) for a one-character separator
RECURSIVE Split(_, _)
Split(s, sep) ==
    IF \A i \in 1..Len(s) : s[i] # sep THEN << s >>
    ELSE LET k == CHOOSE i \in 1..Len(s) :
                      s[i] = sep /\ \A j \in 1..(i - 1) : s[j] # sep
         IN  << SubSeq(s, 1, k - 1) >> \o Split(SubSeq(s, k + 1, Len(s)), sep)

\* ------------------------------------------------------ model.GhotiError
NilError == [Code |-> <<>>, Message |-> ""]

NewGhotiError(code) ==
    [Code |-> code,
     Message |->
        CASE code = <<"0", "0", "1">> -> "Invalid command"
          [] code = <<"0", "0", "2">> -> "Invalid slot number"
          [] code = <<"0", "0", "3">> -> "Invalid data length"
          [] code = <<"0", "0", "4">> -> "Authentication required"
          [] code = <<"0", "0", "5">> -> "Invalid credentials"
          [] code = <<"0", "0", "6">> -> "Permission denied"
          [] code = <<"0", "0", "7">> -> "Slot locked"
          [] code = <<"0", "0", "8">> -> "No tokens available"
          [] code = <<"0", "0", "9">> -> "Internal server error"
          [] OTHER -> "Unknown error"]

\* ------------------------------------------------------------- state
VARIABLES
    pc,               \* control point of every goroutine
    cur,              \* cur[t]: the call caller t is running (index into req)
    req,              \* the calls made so far: arguments, result channel owner, result
    nOps,             \* number of calls made so far
    pendingRequests,  \* Client.pendingRequests: slot -> call whose channel is registered
    chan,             \* chan[i]: buffer of the result channel of call i (capacity 1)
    sent,             \* sent[i]: every Response sent on the channel of call i (history)
    done,             \* Client.done is closed
    wg,               \* Client.wg counter
    mutex,            \* Client.mutex is held (only listen() holds it across steps)
    connClosed,       \* conn.Close() has been called
    connBroken,       \* the peer has shut the connection: reads fail once drained
    wire,             \* lines from the server not yet read by listen()
    outbox,           \* conn.Write calls not yet handled by the server
    store,            \* the server's slot values
    lreg,             \* locals of the dispatcher across its blocking points
    broadcastHandler, \* Client.broadcastHandler (0 is nil)
    handled,          \* handler invocations so far (history)
    panicked,         \* the process has died of a run-time panic
    fatalCause,       \* why handleFatalError ran last ("" if it never ran)
    closeReturned,    \* some caller's Close() has returned
    nInject,          \* frames pushed by the server so far
    nClose            \* Close() calls by callers so far

vars == << pc, cur, req, nOps, pendingRequests, chan, sent, done, wg, mutex,
           connClosed, connBroken, wire, outbox, store, lreg, broadcastHandler,
           handled, panicked, fatalCause, closeReturned, nInject, nClose >>

\* ------------------------------------------------------- input domains
\* Slots are typed on the server.  The callers read and write the memory slot 1,
\* and read and broadcast on the broadcast slot 2.
ReadSlots      == {1, 2}
WriteSlots     == {1}
BroadcastSlots == {2}
WriteData      == { <<"a">> }        \* data the callers write or broadcast
InitValue      == <<"z">>            \* what every slot of the server holds at first
BroadcastAck   == <<"3", "/", "5", "/", "1">>   \* the server's answer to a broadcast
RTSlots        == {0, 1, 42, 999}    \* slots of the write-then-read scenario
BadSlots       == {-1, 1000}         \* slot arguments out of range
LongData       == [k \in 1..(MaxDataLen + 1) |-> "a"]   \* data one byte too long
ServerSlots    == ReadSlots \cup RTSlots

\* the arguments of the Write and Broadcast calls: valid ones, a slot above the
\* range or below it, data too long
WriteArgs ==
    (WriteSlots \X WriteData) \cup { <<1000, <<"a">> >>, <<1, LongData>> }

BroadcastArgs ==
    (BroadcastSlots \X WriteData) \cup { <<-1, <<"a">> >>, <<2, LongData>> }

\* frames the server may push without having been asked
ServerFrames ==
    { <<"e", "0", "0", "7">>,        \* application error, listed code
      <<"e", "1", "2", "3">>,        \* application error, unlisted code
      <<"e", "0", "0", "4">>,        \* authentication required
      <<"e", "0", "0", "5">>,        \* invalid credentials
      <<"a", "0", "0", "1", "n">>,   \* broadcast notification
      <<"x", "0", "0", "1">>,        \* unknown tag
      <<"v", "0", "1">>,             \* value frame too short to hold a slot
      <<"v", "0", "0", "1", "q">>,   \* value for slot 1 that answers no command
      <<>> }                         \* empty line

\* -------------------------------------------------------- result values
Res(kind, data, err, nums, fslot, re) ==
    [kind |-> kind, data |-> data, err |-> err, nums |-> nums,
     fslot |-> fslot, re |-> re]

NoRes       == Res("none",     <<>>, NilError, <<0, 0, 0>>, -1, 0)
TimeoutRes  == Res("timeout",  <<>>, NilError, <<0, 0, 0>>, -1, 0)
ClosedRes   == Res("closed",   <<>>, NilError, <<0, 0, 0>>, -1, 0)
SendFailRes == Res("sendfail", <<>>, NilError, <<0, 0, 0>>, -1, 0)
BadSlotRes  == Res("badslot",  <<>>, NilError, <<0, 0, 0>>, -1, 0)
TooLongRes  == Res("toolong",  <<>>, NilError, <<0, 0, 0>>, -1, 0)

NoReq == [t |-> 0, kind |-> "none", slot |-> 0, data |-> <<>>, res |-> NoRes,
          state |-> "none", waited |-> FALSE, afterClose |-> FALSE,
          afterFatal |-> ""]

\* Response{Data: ..., Error: ...}; fslot and re are history: the slot the frame
\* carried and the call whose command the frame answers (0: none)
Response(data, err, fslot, re) ==
    [Data |-> data, Error |-> err, fslot |-> fslot, re |-> re]

NoResponse == Response(<<>>, NilError, -1, 0)

\* what Read returns for a response taken from its channel (lines 279-283)
ReadResult(r) ==
    IF r.Error # NilError
    THEN Res("error", <<>>, r.Error, <<0, 0, 0>>, r.fslot, r.re)
    ELSE Res("ok", r.Data, NilError, <<0, 0, 0>>, r.fslot, r.re)

\* what Write returns for a response taken from its channel (lines 325-326)
WriteResult(r) ==
    IF r.Error # NilError
    THEN Res("error", <<>>, r.Error, <<0, 0, 0>>, r.fslot, r.re)
    ELSE Res("ok", <<>>, NilError, <<0, 0, 0>>, r.fslot, r.re)

\* what Broadcast returns for a response taken from its channel (lines 368-394)
BroadcastResult(r) ==
    IF r.Error # NilError
    THEN Res("error", <<>>, r.Error, <<0, 0, 0>>, r.fslot, r.re)
    ELSE LET parts == Split(r.Data, "/")
         IN  IF Len(parts) # 3
                \/ ~Atoi(parts[1]).ok \/ ~Atoi(parts[2]).ok \/ ~Atoi(parts[3]).ok
             THEN Res("parse", <<>>, NilError, <<0, 0, 0>>, r.fslot, r.re)
             ELSE Res("ok", <<>>, NilError,
                      << Atoi(parts[1]).val, Atoi(parts[2]).val, Atoi(parts[3]).val >>,
                      r.fslot, r.re)

\* the error value a call returns, as the text of err.Error(): fmt.Errorf for
\* the errors made by the client (the %w of a failed send carries the text of
\* the net error), GhotiError.Error() for an application error
ErrorText(res) ==
    CASE res.kind = "timeout"  -> << "timeout waiting for response" >>
      [] res.kind = "closed"   -> << "client closed" >>
      [] res.kind = "sendfail" -> << "failed to send command: %w",
                                     "use of closed network connection" >>
      [] res.kind = "parse"    -> << "invalid broadcast response format" >>
      [] res.kind = "badslot"  -> << "invalid slot number: %d" >>
      [] res.kind = "toolong"  -> << "data too long: maximum length is 36 characters" >>
      [] res.kind = "error"    -> << "Ghoti error %s: %s",
                                     res.err.Code, res.err.Message >>
      [] OTHER                 -> << >>

ResultOf(kind, r) ==
    CASE kind = "read"      -> ReadResult(r)
      [] kind = "write"     -> WriteResult(r)
      [] kind = "broadcast" -> BroadcastResult(r)

\* ---------------------------------------------------------------- Init
Init ==
    /\ pc = [p \in Procs |-> IF p = Listener THEN "select" ELSE "idle"]
    /\ cur = [t \in Callers |-> 0]
    /\ req = [i \in 1..MaxOps |-> NoReq]
    /\ nOps = 0
    /\ pendingRequests = [s \in {} |-> 0]
    /\ chan = [i \in 1..MaxOps |-> << >>]
    /\ sent = [i \in 1..MaxOps |-> << >>]
    /\ done = FALSE
    /\ wg = 1
    /\ mutex = FALSE
    /\ connClosed = FALSE
    /\ connBroken = FALSE
    /\ wire = << >>
    /\ outbox = << >>
    /\ store = [s \in ServerSlots |-> InitValue]
    /\ lreg = [ch |-> 0, resp |-> NoResponse, slot |-> 0, code |-> << >>,
               todo |-> {}, snap |-> {}]
    /\ broadcastHandler = 0
    /\ handled = << >>
    /\ panicked = FALSE
    /\ fatalCause = ""
    /\ closeReturned = FALSE
    /\ nInject = 0
    /\ nClose = 0

\* ------------------------------------------------------------ helpers
\* a lookup that ignores the slot of the frame: any registered channel
LookupAny(slot) ==
    IF DOMAIN pendingRequests = {} THEN 0
    ELSE pendingRequests[CHOOSE s \in DOMAIN pendingRequests : TRUE]

\* ch, ok := c.pendingRequests[slot] (0 when !ok)
Lookup(slot) ==
    IF slot \in DOMAIN pendingRequests THEN pendingRequests[slot] ELSE 0

\* a delete that removes nothing
DeleteNone(m, slot) == m

\* delete(c.pendingRequests, slot)
Delete(m, slot) == [s \in (DOMAIN m) \ {slot} |-> m[s]]

\* the caller blocked in the select of call i, if any
Receivers(i) == { t \in Callers : pc[t] = "blocked" /\ cur[t] = i }

\* ch <- r can proceed: a receiver is waiting, or the buffer (capacity 1) has room
CanSend(i) == Receivers(i) # {} \/ chan[i] = << >>

\* ch <- r on the channel of call i: handed to the blocked receiver, which leaves
\* its select with it, or else put in the buffer; the sender (listen()) goes on
\* at `next`
ChanSend(i, r, next) ==
    /\ CanSend(i)
    /\ sent' = [sent EXCEPT ![i] = Append(@, r)]
    /\ pc' = [p \in Procs |->
                IF p \in Receivers(i) THEN "resolved"
                ELSE IF p = Listener THEN next ELSE pc[p]]
    /\ IF Receivers(i) # {}
       THEN /\ req' = [req EXCEPT ![i].res = ResultOf(req[i].kind, r)]
            /\ chan' = chan
       ELSE /\ chan' = [chan EXCEPT ![i] = << r >>]
            /\ req' = req

\* ------------------------------------------------- Read, Write, Broadcast
\* The caller goroutines run the same code: of the callers that have not made a
\* call yet, the one with the least number makes the next first call.
Started(t) == cur[t] # 0 \/ pc[t] # "idle" \/ nClose > 0

MayCall(t) == pc[t] = "idle" /\ (IF t = 1 THEN TRUE ELSE Started(t - 1))

\* if slot < 0 || slot > 999
BadSlot(kind, slot, data) == slot < MinSlot \/ slot > MaxSlot

\* if len(data) > 36, in Write and Broadcast
TooLong(kind, slot, data) == kind # "read" /\ Len(data) > MaxDataLen

\* a validation that forgets the length of the data
ValidationSlotOnly(kind, slot, data) == BadSlot(kind, slot, data)

\* the two checks at the top of Read, Write and Broadcast
ValidationFails(kind, slot, data) ==
    BadSlot(kind, slot, data) \/ TooLong(kind, slot, data)

\* a call whose arguments fail the validation returns the error at once
Reject(t, kind, slot, data) ==
    /\ ~panicked
    /\ MayCall(t)
    /\ nOps < MaxOps
    /\ ValidationFails(kind, slot, data)
    /\ nOps' = nOps + 1
    /\ req' = [req EXCEPT ![nOps + 1] =
                 [t |-> t, kind |-> kind, slot |-> slot, data |-> data,
                  res |-> IF BadSlot(kind, slot, data) THEN BadSlotRes
                          ELSE TooLongRes,
                  state |-> "returned", waited |-> FALSE,
                  afterClose |-> closeReturned,
                  afterFatal |-> fatalCause]]
    /\ UNCHANGED << pc, cur, pendingRequests, chan, sent, done, wg, mutex,
                    connClosed, connBroken, wire, outbox, store, lreg,
                    broadcastHandler, handled, panicked, fatalCause,
                    closeReturned, nInject, nClose >>

\* make(chan Response, 1) and the registration under the mutex, when the
\* arguments pass the validation
Register(t, kind, slot, data) ==
    /\ ~panicked
    /\ MayCall(t)
    /\ nOps < MaxOps
    /\ ~ValidationFails(kind, slot, data)
    /\ ~mutex
    /\ nOps' = nOps + 1
    /\ cur' = [cur EXCEPT ![t] = nOps + 1]
    /\ req' = [req EXCEPT ![nOps + 1] =
                 [t |-> t, kind |-> kind, slot |-> slot, data |-> data,
                  res |-> NoRes, state |-> "registered", waited |-> FALSE,
                  afterClose |-> closeReturned,
                  afterFatal |-> fatalCause]]
    /\ pendingRequests' = (slot :> (nOps + 1)) @@ pendingRequests
    /\ pc' = [pc EXCEPT ![t] = "registered"]
    /\ UNCHANGED << chan, sent, done, wg, mutex, connClosed, connBroken, wire,
                    outbox, store, lreg, broadcastHandler, handled, panicked,
                    fatalCause, closeReturned, nInject, nClose >>

Read(t, slot) ==
    Register(t, "read", slot, << >>) \/ Reject(t, "read", slot, << >>)

Write(t, slot, data) ==
    Register(t, "write", slot, data) \/ Reject(t, "write", slot, data)

Broadcast(t, slot, data) ==
    Register(t, "broadcast", slot, data) \/ Reject(t, "broadcast", slot, data)

\* fmt.Sprintf("r%03d\n", slot) and fmt.Sprintf("w%03d%s\n", slot, data)
Command(kind, slot, data) ==
    IF kind = "read" THEN << "r" >> \o Fmt3(slot) \o << "\n" >>
    ELSE << "w" >> \o Fmt3(slot) \o data \o << "\n" >>

\* c.conn.Write([]byte(cmd)), which fails on a connection that Close() has
\* closed, and the entry into the select on responseCh, time.After and c.done: a
\* case that is ready is taken (any of them when several are), and with none
\* ready the goroutine blocks.  The caller touches no shared state between the
\* write and the select, and a response sent to the channel before the entry is
\* received at the entry just as one handed to the blocked goroutine is.
Send(t) ==
    /\ ~panicked
    /\ pc[t] = "registered"
    /\ IF connClosed
       THEN /\ req' = [req EXCEPT ![cur[t]].res = SendFailRes]
            /\ pc' = [pc EXCEPT ![t] = "resolved"]
            /\ UNCHANGED << outbox, chan >>
       ELSE /\ outbox' = Append(outbox,
                   [bytes |-> Command(req[cur[t]].kind, req[cur[t]].slot,
                                      req[cur[t]].data),
                    op |-> cur[t]])
            /\ \/ /\ chan[cur[t]] # << >>
                  /\ req' = [req EXCEPT ![cur[t]].res =
                                ResultOf(req[cur[t]].kind, Head(chan[cur[t]])),
                                        ![cur[t]].state = "sent"]
                  /\ chan' = [chan EXCEPT ![cur[t]] = << >>]
                  /\ pc' = [pc EXCEPT ![t] = "resolved"]
               \/ /\ done
                  /\ req' = [req EXCEPT ![cur[t]].res = ClosedRes,
                                        ![cur[t]].state = "sent"]
                  /\ pc' = [pc EXCEPT ![t] = "resolved"]
                  /\ chan' = chan
               \/ /\ chan[cur[t]] = << >>
                  /\ ~done
                  /\ req' = [req EXCEPT ![cur[t]].waited = TRUE,
                                        ![cur[t]].state = "sent"]
                  /\ pc' = [pc EXCEPT ![t] = "blocked"]
                  /\ chan' = chan
    /\ UNCHANGED << cur, nOps, pendingRequests, sent, done, wg, mutex,
                    connClosed, connBroken, wire, store, lreg, broadcastHandler,
                    handled, panicked, fatalCause, closeReturned, nInject, nClose >>

\* case <-time.After(5 * time.Second): only a blocked select can be woken by it
Timeout(t) ==
    /\ ~panicked
    /\ pc[t] = "blocked"
    /\ req' = [req EXCEPT ![cur[t]].res = TimeoutRes]
    /\ pc' = [pc EXCEPT ![t] = "resolved"]
    /\ UNCHANGED << cur, nOps, pendingRequests, chan, sent, done, wg, mutex,
                    connClosed, connBroken, wire, outbox, store, lreg,
                    broadcastHandler, handled, panicked, fatalCause,
                    closeReturned, nInject, nClose >>

\* a return without the deferred delete
DeregisterNoDelete(t) ==
    /\ ~panicked
    /\ pc[t] = "resolved"
    /\ req' = [req EXCEPT ![cur[t]].state = "returned"]
    /\ pc' = [pc EXCEPT ![t] = "idle"]
    /\ UNCHANGED << cur, nOps, pendingRequests, chan, sent, done, wg, mutex,
                    connClosed, connBroken, wire, outbox, store, lreg,
                    broadcastHandler, handled, panicked, fatalCause,
                    closeReturned, nInject, nClose >>

\* the deferred function: delete(c.pendingRequests, slot) under the mutex, and
\* the return to the caller
Deregister(t) ==
    /\ ~panicked
    /\ pc[t] = "resolved"
    /\ ~mutex
    /\ pendingRequests' = Delete(pendingRequests, req[cur[t]].slot)
    /\ req' = [req EXCEPT ![cur[t]].state = "returned"]
    /\ pc' = [pc EXCEPT ![t] = "idle"]
    /\ UNCHANGED << cur, nOps, chan, sent, done, wg, mutex, connClosed, connBroken,
                    wire, outbox, store, lreg, broadcastHandler, handled,
                    panicked, fatalCause, closeReturned, nInject, nClose >>

\* ---------------------------------------------------------------- Close
\* close(c.done) by goroutine p, the first statement of Close(): every goroutine
\* blocked in a select on c.done leaves it with "client closed", and p goes on
\* to c.wg.Wait(); closing a channel that is closed already panics
CloseDone(p) ==
    IF done
    THEN /\ panicked' = TRUE
         /\ UNCHANGED << pc, req, done >>
    ELSE /\ done' = TRUE
         /\ pc' = [q \in Procs |->
                     IF q = p THEN "closewait"
                     ELSE IF pc[q] = "blocked" THEN "resolved" ELSE pc[q]]
         /\ req' = [i \in 1..MaxOps |->
                     IF Receivers(i) # {} THEN [req[i] EXCEPT !.res = ClosedRes]
                     ELSE req[i]]
         /\ panicked' = panicked

\* Close() called by caller t: close(c.done)
CloseSignal(t) ==
    /\ ~panicked
    /\ MayCall(t)
    /\ nClose < MaxCloseCalls
    /\ nClose' = nClose + 1
    /\ CloseDone(t)
    /\ UNCHANGED << cur, nOps, pendingRequests, chan, sent, wg, mutex, connClosed,
                    connBroken, wire, outbox, store, lreg, broadcastHandler,
                    handled, fatalCause, closeReturned, nInject >>

\* a Close() that does not join listen(): conn.Close() right after close(c.done)
CloseWaitNoJoin(p) ==
    /\ ~panicked
    /\ pc[p] = "closewait"
    /\ connClosed' = TRUE
    /\ closeReturned' = (closeReturned \/ p \in Callers)
    /\ pc' = [pc EXCEPT ![p] = IF p \in Callers THEN "idle" ELSE "select"]
    /\ UNCHANGED << cur, req, nOps, pendingRequests, chan, sent, done, wg, mutex,
                    connBroken, wire, outbox, store, lreg, broadcastHandler,
                    handled, panicked, fatalCause, nInject, nClose >>

\* the rest of Close(): c.wg.Wait(), which returns once listen() has run its
\* deferred c.wg.Done(), and return c.conn.Close().  Close() in listen()
\* (handleFatalError) would go on in listen() after it.
CloseWait(p) ==
    /\ ~panicked
    /\ pc[p] = "closewait"
    /\ wg = 0
    /\ connClosed' = TRUE
    /\ closeReturned' = (closeReturned \/ p \in Callers)
    /\ pc' = [pc EXCEPT ![p] =
                IF p \in Callers THEN "idle"
                ELSE IF fatalCause = "read error" THEN "return" ELSE "select"]
    /\ UNCHANGED << cur, req, nOps, pendingRequests, chan, sent, done, wg, mutex,
                    connBroken, wire, outbox, store, lreg, broadcastHandler,
                    handled, panicked, fatalCause, nInject, nClose >>

\* a Close() that returns at once: no signal, no join, the connection left open
CloseNoop(p) ==
    /\ ~panicked
    /\ p \in Callers
    /\ MayCall(p)
    /\ nClose < MaxCloseCalls
    /\ nClose' = nClose + 1
    /\ closeReturned' = TRUE
    /\ UNCHANGED << pc, cur, req, nOps, pendingRequests, chan, sent, done, wg,
                    mutex, connClosed, connBroken, wire, outbox, store, lreg,
                    broadcastHandler, handled, panicked, fatalCause, nInject >>

\* Close(): called by a caller, and then its steps after close(c.done)
Close(p) == (p \in Callers /\ CloseSignal(p)) \/ CloseWait(p)

\* --------------------------------------------------------------- listen
\* what listen() and the dispatcher never change
ListenerFrame ==
    UNCHANGED << cur, nOps, connClosed, connBroken, outbox, store,
                 broadcastHandler, closeReturned, nInject, nClose >>

\* listen() goes on at `next` without a send and without a fatal error
Goto(next) ==
    /\ pc' = [pc EXCEPT ![Listener] = next]
    /\ UNCHANGED << req, chan, sent, done, panicked, fatalCause >>

\* a handleFatalError that only prints, after which listen() returns
HandleFatalErrorExitOnly(cause) ==
    /\ fatalCause' = cause
    /\ pc' = [pc EXCEPT ![Listener] = "return"]
    /\ UNCHANGED << req, done, panicked, chan, sent >>

\* a handleFatalError that only prints: listen() goes on with the next line
HandleFatalErrorLogOnly(cause) ==
    /\ fatalCause' = cause
    /\ pc' = [pc EXCEPT ![Listener] = "select"]
    /\ UNCHANGED << req, done, panicked, chan, sent >>

\* handleFatalError(err) in listen(): prints and calls c.Close(), whose first
\* statement is close(c.done); listen() continues in Close() at c.wg.Wait()
HandleFatalError(cause) ==
    /\ fatalCause' = cause
    /\ CloseDone(Listener)
    /\ UNCHANGED << chan, sent >>

\* the top of the loop: select { case <-c.done: return; default: ... }, and the
\* deferred c.wg.Done() of a return
ListenSelect ==
    /\ ~panicked
    /\ pc[Listener] \in {"select", "return"}
    /\ IF done \/ pc[Listener] = "return"
       THEN wg' = wg - 1 /\ Goto("exited")
       ELSE wg' = wg /\ Goto("read")
    /\ UNCHANGED << pendingRequests, mutex, wire, lreg, handled >>
    /\ ListenerFrame

\* c.reader.ReadString('\n') returns an error: the peer has shut the connection
\* and every line it sent has been read
ListenReadError ==
    /\ ~panicked
    /\ pc[Listener] = "read"
    /\ wire = << >>
    /\ connBroken
    /\ HandleFatalError("read error")
    /\ UNCHANGED << pendingRequests, wg, mutex, wire, lreg, handled >>
    /\ ListenerFrame

\* ReadString returns a line: listen() is blocked in the read until one is there
HasLine == ~panicked /\ pc[Listener] = "read" /\ wire # << >>

\* strings.TrimSuffix(line, "\n"); if len(line) == 0 { continue }
ListenEmptyLine ==
    /\ HasLine
    /\ Head(wire).line = << >>
    /\ wire' = Tail(wire)
    /\ Goto("select")
    /\ UNCHANGED << pendingRequests, wg, mutex, lreg, handled >>
    /\ ListenerFrame

\* a payload cut one character early: message[3:]
ValueDataOffByOne(message) == From(message, 3)

\* data := message[4:]
ValueData(message) == From(message, 4)

\* handleValueResponse: the checks, the lookup under the mutex and, when it can
\* proceed at once, the send ch <- Response{Data: data}; a send that cannot
\* proceed leaves listen() blocked in it (ValueSend).  Only listen() sends on
\* result channels, so a send that can proceed at the lookup still can when it
\* is reached.
HandleValueResponse ==
    /\ HasLine
    /\ Head(wire).line # << >>
    /\ Head(wire).line[1] = "v"
    /\ wire' = Tail(wire)
    /\ LET message == Head(wire).line
           slot    == Atoi(SubSeq(message, 2, 4))
           resp    == Response(ValueData(message), NilError, slot.val, Head(wire).re)
       IN  IF Len(message) > 1 /\ From(message, 1) = User
           THEN Goto("select") /\ lreg' = lreg
           ELSE IF Len(message) < 4
           THEN HandleFatalError("invalid value response format") /\ lreg' = lreg
           ELSE IF ~slot.ok
           THEN HandleFatalError("invalid slot number in response") /\ lreg' = lreg
           ELSE /\ ~mutex
                /\ IF Lookup(slot.val) = 0
                   THEN HandleFatalError("no pending request") /\ lreg' = lreg
                   ELSE IF CanSend(Lookup(slot.val))
                   THEN /\ ChanSend(Lookup(slot.val), resp, "select")
                        /\ UNCHANGED << lreg, done, panicked, fatalCause >>
                   ELSE /\ Goto("vsend")
                        /\ lreg' = [lreg EXCEPT !.ch = Lookup(slot.val),
                                                !.resp = resp]
    /\ UNCHANGED << pendingRequests, wg, mutex, handled >>
    /\ ListenerFrame

\* the send of handleValueResponse that had blocked proceeds
ValueSend ==
    /\ ~panicked
    /\ pc[Listener] = "vsend"
    /\ ChanSend(lreg.ch, lreg.resp, "select")
    /\ UNCHANGED << pendingRequests, done, panicked, fatalCause, wg, mutex, wire,
                    lreg, handled >>
    /\ ListenerFrame

\* no code is treated as an authentication error
AuthErrorCodesNone == {}

\* errorCode == "004" || errorCode == "005"
AuthErrorCodes == { <<"0", "0", "4">>, <<"0", "0", "5">> }

\* handleErrorResponse up to c.mutex.Lock()
HandleErrorResponse ==
    /\ HasLine
    /\ Head(wire).line # << >>
    /\ Head(wire).line[1] = "e"
    /\ wire' = Tail(wire)
    /\ LET message   == Head(wire).line
           errorCode == SubSeq(message, 2, 4)
       IN  IF Len(message) < 4
           THEN /\ HandleFatalError("invalid error response format")
                /\ UNCHANGED << lreg, mutex >>
           ELSE IF errorCode \in AuthErrorCodes
           THEN /\ Goto("select")
                /\ lreg' = [lreg EXCEPT
                              !.code = errorCode,
                              !.snap = { pendingRequests[s] :
                                           s \in DOMAIN pendingRequests }]
                /\ mutex' = mutex
           ELSE /\ ~mutex
                /\ mutex' = TRUE
                /\ lreg' = [lreg EXCEPT
                              !.code = errorCode,
                              !.todo = DOMAIN pendingRequests,
                              !.snap = { pendingRequests[s] :
                                           s \in DOMAIN pendingRequests }]
                /\ Goto("eloop")
    /\ UNCHANGED << pendingRequests, wg, handled >>
    /\ ListenerFrame

ErrorResponse(code) == Response(<< >>, NewGhotiError(code), -1, 0)

\* a loop that stops after its first iteration
ErrorForwardOne ==
    /\ ~panicked
    /\ pc[Listener] = "eloop"
    /\ \E slot \in lreg.todo :
         /\ CanSend(pendingRequests[slot])
         /\ ChanSend(pendingRequests[slot], ErrorResponse(lreg.code), "eloop")
         /\ pendingRequests' = Delete(pendingRequests, slot)
         /\ lreg' = [lreg EXCEPT !.todo = {}]
         /\ UNCHANGED << done, panicked, fatalCause >>
    /\ UNCHANGED << wg, mutex, wire, handled >>
    /\ ListenerFrame

\* one iteration of the range loop of handleErrorResponse, with the mutex held:
\* the send and the delete, or, when the send cannot proceed, listen() blocks in
\* the send (ErrorSend).  lreg.todo holds the keys the range has yet to produce
\* (the mutex is held, so no key is added meanwhile); lreg.snap is history: the
\* calls that were registered when the loop began.
ErrorForward ==
    /\ ~panicked
    /\ pc[Listener] = "eloop"
    /\ \E slot \in lreg.todo :
         IF CanSend(pendingRequests[slot])
         THEN /\ ChanSend(pendingRequests[slot], ErrorResponse(lreg.code), "eloop")
              /\ pendingRequests' = Delete(pendingRequests, slot)
              /\ lreg' = [lreg EXCEPT !.todo = @ \ {slot}]
              /\ UNCHANGED << done, panicked, fatalCause >>
         ELSE /\ Goto("esend")
              /\ lreg' = [lreg EXCEPT !.ch = pendingRequests[slot], !.slot = slot]
              /\ pendingRequests' = pendingRequests
    /\ UNCHANGED << wg, mutex, wire, handled >>
    /\ ListenerFrame

\* a send of the loop that had blocked proceeds, and the entry is deleted
ErrorSend ==
    /\ ~panicked
    /\ pc[Listener] = "esend"
    /\ ChanSend(lreg.ch, ErrorResponse(lreg.code), "eloop")
    /\ pendingRequests' = Delete(pendingRequests, lreg.slot)
    /\ lreg' = [lreg EXCEPT !.todo = @ \ {lreg.slot}]
    /\ UNCHANGED << done, panicked, fatalCause, wg, mutex, wire, handled >>
    /\ ListenerFrame

\* the loop is over: the deferred c.mutex.Unlock()
ErrorDone ==
    /\ ~panicked
    /\ pc[Listener] = "eloop"
    /\ lreg.todo = {}
    /\ mutex' = FALSE
    /\ Goto("select")
    /\ UNCHANGED << pendingRequests, wg, wire, lreg, handled >>
    /\ ListenerFrame

\* a handleBroadcastMessage that drops every notification
HandleBroadcastMessageDrop ==
    /\ HasLine
    /\ Head(wire).line # << >>
    /\ Head(wire).line[1] = "a"
    /\ wire' = Tail(wire)
    /\ Goto("select")
    /\ UNCHANGED << pendingRequests, wg, mutex, lreg, handled >>
    /\ ListenerFrame

\* handleBroadcastMessage
HandleBroadcastMessage ==
    /\ HasLine
    /\ Head(wire).line # << >>
    /\ Head(wire).line[1] = "a"
    /\ wire' = Tail(wire)
    /\ LET message == Head(wire).line
           slot    == Atoi(SubSeq(message, 2, 4))
       IN  IF Len(message) < 4
           THEN /\ HandleFatalError("invalid broadcast message format")
                /\ handled' = handled
           ELSE IF ~slot.ok
           THEN /\ HandleFatalError("invalid slot number in broadcast")
                /\ handled' = handled
           ELSE /\ ~mutex
                /\ handled' = IF broadcastHandler # 0
                              THEN Append(handled,
                                          [handler |-> broadcastHandler,
                                           slot |-> slot.val,
                                           data |-> From(message, 4)])
                              ELSE handled
                /\ Goto("select")
    /\ UNCHANGED << pendingRequests, wg, mutex, lreg >>
    /\ ListenerFrame

\* processMessage, default case
UnknownMessageType ==
    /\ HasLine
    /\ Head(wire).line # << >>
    /\ Head(wire).line[1] \notin {"v", "e", "a"}
    /\ wire' = Tail(wire)
    /\ HandleFatalError("unknown message type")
    /\ UNCHANGED << pendingRequests, wg, mutex, lreg, handled >>
    /\ ListenerFrame

\* --------------------------------------------------------------- server
\* The server at the other end of the connection (not code of the client): it
\* reads newline-terminated lines, stores what a w line carries and answers an
\* r or w line with a v frame for the same slot (the value of the slot, or for a
\* w on a broadcast slot the delivery counts); other lines get no answer.
\* The client sees a frame only when listen() reads it, so the server's frames
\* are produced one write at a time, when the lines before them have been read.
RECURSIVE ServerLines(_, _, _)
ServerLines(lines, st, op) ==
    IF lines = << >> THEN [store |-> st, out |-> << >>]
    ELSE LET l    == Head(lines)
             slot == Atoi(SubSeq(l, 2, 4))
             cmd  == Len(l) >= 4 /\ l[1] \in {"r", "w"} /\ slot.ok
                     /\ slot.val \in DOMAIN st
             st1  == IF cmd /\ l[1] = "w"
                     THEN [st EXCEPT ![slot.val] = From(l, 4)] ELSE st
             rest == ServerLines(Tail(lines), st1, op)
             ans  == IF l[1] = "w" /\ slot.val \in BroadcastSlots
                     THEN BroadcastAck ELSE st1[slot.val]
         IN  IF cmd
             THEN [store |-> rest.store,
                   out |-> << [line |-> << "v" >> \o Fmt3(slot.val) \o ans,
                               re |-> op] >> \o rest.out]
             ELSE rest

ServerReply ==
    /\ ~panicked
    /\ ~connBroken
    /\ ~connClosed
    /\ wire = << >>
    /\ outbox # << >>
    /\ LET r == ServerLines(Split(Head(outbox).bytes, "\n"), store, Head(outbox).op)
       IN  /\ store' = r.store
           /\ wire' = wire \o r.out
    /\ outbox' = Tail(outbox)
    /\ UNCHANGED << pc, cur, req, nOps, pendingRequests, chan, sent, done, wg,
                    mutex, connClosed, connBroken, lreg, broadcastHandler,
                    handled, panicked, fatalCause, closeReturned, nInject, nClose >>

\* the server pushes a frame that answers no command
ServerPush(f) ==
    /\ ~panicked
    /\ ~connBroken
    /\ ~connClosed
    /\ wire = << >>
    /\ nInject < MaxInject
    /\ nInject' = nInject + 1
    /\ wire' = Append(wire, [line |-> f, re |-> 0])
    /\ UNCHANGED << pc, cur, req, nOps, pendingRequests, chan, sent, done, wg,
                    mutex, connClosed, connBroken, outbox, store, lreg,
                    broadcastHandler, handled, panicked, fatalCause,
                    closeReturned, nClose >>

\* the peer shuts the connection down (EOF or reset on the client's reads)
ServerHangup ==
    /\ ~panicked
    /\ ~connBroken
    /\ ~connClosed
    /\ nInject < MaxInject
    /\ nInject' = nInject + 1
    /\ connBroken' = TRUE
    /\ UNCHANGED << pc, cur, req, nOps, pendingRequests, chan, sent, done, wg,
                    mutex, connClosed, wire, outbox, store, lreg,
                    broadcastHandler, handled, panicked, fatalCause,
                    closeReturned, nClose >>

\* ----------------------------------------------------------------- Next
Next ==
    \/ \E t \in Callers, slot \in ReadSlots \cup BadSlots : Read(t, slot)
    \/ \E t \in Callers, a \in WriteArgs : Write(t, a[1], a[2])
    \/ \E t \in Callers, a \in BroadcastArgs : Broadcast(t, a[1], a[2])
    \/ \E t \in Callers : Send(t)
    \/ \E t \in Callers : Timeout(t)
    \/ \E t \in Callers : Deregister(t)
    \/ \E p \in Procs : Close(p)
    \/ ListenSelect
    \/ ListenReadError
    \/ ListenEmptyLine
    \/ HandleValueResponse
    \/ ValueSend
    \/ HandleErrorResponse
    \/ ErrorForward
    \/ ErrorSend
    \/ ErrorDone
    \/ HandleBroadcastMessage
    \/ UnknownMessageType
    \/ ServerReply
    \/ \E f \in ServerFrames : ServerPush(f)
    \/ ServerHangup

Spec == Init /\ [][Next]_vars

\* ------------------------------------------------------------ fairness
\* A goroutine that can take a step takes it: listen() and its dispatcher,
\* and a caller inside a call (its write, its timer, its deferred delete, the
\* rest of its Close()).  Nothing obliges a caller to make a call, nor the
\* server to answer, push a frame or hang up.
ListenerNext ==
    \/ ListenSelect
    \/ ListenReadError
    \/ ListenEmptyLine
    \/ HandleValueResponse
    \/ ValueSend
    \/ HandleErrorResponse
    \/ ErrorForward
    \/ ErrorSend
    \/ ErrorDone
    \/ HandleBroadcastMessage
    \/ UnknownMessageType
    \/ CloseWait(Listener)

CallerNext(t) == Send(t) \/ Timeout(t) \/ Deregister(t) \/ CloseWait(t)

FairSpec ==
    /\ Spec
    /\ WF_vars(ListenerNext)
    /\ \A t \in Callers : WF_vars(CallerNext(t))

\* ----------------------------------------------- write, then read
\* The scenario of TestClient on a new client: one caller writes d to slot s
\* and, the Write having succeeded, reads slot s; the server answers every
\* command and pushes nothing, and nobody else uses the client.
RTData == { << >>, <<"a">>, <<"a", "b">>, <<"a", "\n">> }

RTWrite(slot, data) == nOps = 0 /\ Write(1, slot, data)

RTRead ==
    /\ nOps = 1
    /\ req[1].state = "returned"
    /\ req[1].res.kind = "ok"
    /\ Read(1, req[1].slot)

NextRT ==
    \/ \E slot \in RTSlots, data \in RTData : RTWrite(slot, data)
    \/ RTRead
    \/ Send(1)
    \/ Timeout(1)
    \/ Deregister(1)
    \/ ListenSelect
    \/ HandleValueResponse
    \/ ServerReply

SpecRT == Init /\ [][NextRT]_vars

\* ------------------------------------------- broadcast acknowledgement
\* One caller broadcasts on slot 2 of a new client, and the server answers the
\* command with a v frame for that slot whose payload is any of AckPayloads.
AckPayloads ==
    { <<"3", "/", "5", "/", "1">>,
      <<"1", "0", "/", "0", "/", "0">>,
      <<"3", "/", "5">>,
      <<"3", "/", "5", "/", "1", "/", "2">>,
      <<"x", "/", "5", "/", "1">>,
      <<"3", "/", "/", "1">>,
      <<"3", "/", "5", "/">>,
      <<"-", "3", "/", "5", "/", "1">>,
      <<"3", "/", "5", "/", "-", "1">>,
      << >> }

ServerAck(payload) ==
    /\ ~panicked
    /\ wire = << >>
    /\ outbox # << >>
    /\ wire' = << [line |-> << "v" >> \o SubSeq(Head(outbox).bytes, 2, 4)
                                     \o payload,
                   re |-> Head(outbox).op] >>
    /\ outbox' = Tail(outbox)
    /\ UNCHANGED << pc, cur, req, nOps, pendingRequests, chan, sent, done, wg,
                    mutex, connClosed, connBroken, store, lreg, broadcastHandler,
                    handled, panicked, fatalCause, closeReturned, nInject, nClose >>

BCBroadcast == nOps = 0 /\ Broadcast(1, 2, <<"a">>)

NextBC ==
    \/ BCBroadcast
    \/ Send(1)
    \/ Timeout(1)
    \/ Deregister(1)
    \/ ListenSelect
    \/ HandleValueResponse
    \/ \E payload \in AckPayloads : ServerAck(payload)

SpecBC == Init /\ [][NextBC]_vars

\* --------------------------------------------------- broadcast handler
\* Callers set, replace and clear the broadcast handler of a new client while
\* one of them has a Read on slot 1 in progress, and the server pushes broadcast
\* notifications; the server answers no command.
Handlers == {1, 2}

\* SetBroadcastHandler(handler): the assignment under the mutex (0 is nil)
SetBroadcastHandler(t, handler) ==
    /\ ~panicked
    /\ pc[t] = "idle"
    /\ ~mutex
    /\ broadcastHandler' = handler
    /\ UNCHANGED << pc, cur, req, nOps, pendingRequests, chan, sent, done, wg,
                    mutex, connClosed, connBroken, wire, outbox, store, lreg,
                    handled, panicked, fatalCause, closeReturned, nInject,
                    nClose >>

BroadcastFrames ==
    { <<"a", "0", "0", "1", "n">>,   \* notification for slot 1
      <<"a", "0", "4", "2">>,        \* notification with an empty payload
      <<"a", "9", "9", "9", "n", "/", "m">> }

BHRead == nOps = 0 /\ Read(1, 1)

NextBH ==
    \/ \E t \in Callers, handler \in Handlers \cup {0} :
            SetBroadcastHandler(t, handler)
    \/ BHRead
    \/ Send(1)
    \/ Timeout(1)
    \/ Deregister(1)
    \/ ListenSelect
    \/ HandleBroadcastMessage
    \/ \E f \in BroadcastFrames : ServerPush(f)

SpecBH == Init /\ [][NextBH]_vars

\* ------------------------------------------------------------------ Auth
\* config.Auth().Pass(): the configured password
Pass == <<"s">>

\* fmt.Sprintf("u%s\n", user) and fmt.Sprintf("p%s\n", pass)
UserCmd == << "u" >> \o User \o << "\n" >>
PassCmd == << "p" >> \o Pass \o << "\n" >>

AuthReq(t, res, state) ==
    [t |-> t, kind |-> "auth", slot |-> 0, data |-> << >>, res |-> res,
     state |-> state, waited |-> FALSE, afterClose |-> closeReturned,
     afterFatal |-> fatalCause]

AuthFrame ==
    UNCHANGED << pendingRequests, chan, sent, done, wg, mutex, connClosed,
                 connBroken, wire, store, lreg, broadcastHandler, handled,
                 panicked, fatalCause, closeReturned, nInject, nClose >>

\* an Auth() that begins with the password command
AuthUserSendsPass(t) ==
    /\ ~panicked
    /\ MayCall(t)
    /\ nOps < MaxOps
    /\ nOps' = nOps + 1
    /\ cur' = [cur EXCEPT ![t] = nOps + 1]
    /\ req' = [req EXCEPT ![nOps + 1] = AuthReq(t, NoRes, "sent")]
    /\ outbox' = Append(outbox, [bytes |-> PassCmd, op |-> 0])
    /\ pc' = [pc EXCEPT ![t] = "authpass"]
    /\ AuthFrame

\* Auth(): the user command is written to the connection; Auth() returns the
\* error when the write fails, and sleeps 100 ms otherwise
AuthUser(t) ==
    /\ ~panicked
    /\ MayCall(t)
    /\ nOps < MaxOps
    /\ nOps' = nOps + 1
    /\ cur' = [cur EXCEPT ![t] = nOps + 1]
    /\ IF connClosed
       THEN /\ req' = [req EXCEPT ![nOps + 1] = AuthReq(t, SendFailRes, "returned")]
            /\ UNCHANGED << outbox, pc >>
       ELSE /\ req' = [req EXCEPT ![nOps + 1] = AuthReq(t, NoRes, "sent")]
            /\ outbox' = Append(outbox, [bytes |-> UserCmd, op |-> 0])
            /\ pc' = [pc EXCEPT ![t] = "authpass"]
    /\ AuthFrame

\* Auth(): the password command is written, and after another 100 ms Auth()
\* returns nil; it returns the error when the write fails
AuthPass(t) ==
    /\ ~panicked
    /\ pc[t] = "authpass"
    /\ IF connClosed
       THEN /\ req' = [req EXCEPT ![cur[t]].res = SendFailRes,
                                  ![cur[t]].state = "returned"]
            /\ outbox' = outbox
       ELSE /\ req' = [req EXCEPT ![cur[t]].res =
                                      Res("ok", <<>>, NilError, <<0, 0, 0>>, -1, 0),
                                  ![cur[t]].state = "returned"]
            /\ outbox' = Append(outbox, [bytes |-> PassCmd, op |-> 0])
    /\ pc' = [pc EXCEPT ![t] = "idle"]
    /\ UNCHANGED << cur, nOps >>
    /\ AuthFrame

\* what the server may answer to a u or p command: an authentication error,
\* the user name after the tag, or a value frame whose payload is the user name
AuthAnswers ==
    { <<"e", "0", "0", "4">>, <<"e", "0", "0", "5">>, << "v" >> \o User,
      << "v", "0", "0", "1" >> \o User }

ServerAuthAnswer(f) ==
    /\ ~panicked
    /\ ~connBroken
    /\ ~connClosed
    /\ wire = << >>
    /\ outbox # << >>
    /\ Head(outbox).bytes[1] \in {"u", "p"}
    /\ wire' = << [line |-> f, re |-> 0] >>
    /\ outbox' = Tail(outbox)
    /\ UNCHANGED << pc, cur, req, nOps, pendingRequests, chan, sent, done, wg,
                    mutex, connClosed, connBroken, store, lreg, broadcastHandler,
                    handled, panicked, fatalCause, closeReturned, nInject, nClose >>

\* The callers authenticate while one of them may have a Read on slot 1 in
\* progress; the server answers the commands or ignores them.
AuthRead == (\A i \in 1..MaxOps : req[i].kind # "read") /\ Read(1, 1)

NextAuth ==
    \/ \E t \in Callers : AuthUser(t)
    \/ \E t \in Callers : AuthPass(t)
    \/ AuthRead
    \/ Send(1)
    \/ Timeout(1)
    \/ Deregister(1)
    \/ ListenSelect
    \/ HandleValueResponse
    \/ HandleErrorResponse
    \/ ServerReply
    \/ \E f \in AuthAnswers : ServerAuthAnswer(f)

SpecAuth == Init /\ [][NextAuth]_vars

\* ======================================================== properties
Calls == 1..MaxOps

\* call i was made with valid arguments
ValidArgs(i) ==
    /\ req[i].slot >= 0 /\ req[i].slot <= 999
    /\ req[i].kind = "read" \/ Len(req[i].data) <= 36

\* ------------------------------------------------------------------ C2
\* C2: with calls of two callers in flight on distinct slots, a call is resolved
\* by a v frame only if the frame carries the call's own slot number, and the
\* payload it returns is that frame's; this holds of every Response sent on a
\* call's channel as well.
C2_OwnSlotOnly ==
    /\ \A i \in Calls :
         req[i].res.kind \in {"ok", "parse"} => req[i].res.fslot = req[i].slot
    /\ \A i \in Calls : \A k \in 1..Len(sent[i]) :
         sent[i][k].Error = NilError => sent[i][k].fslot = req[i].slot

\* two calls of different callers on different slots, both resolved by a v frame
\* while neither has returned
C2_Witness ==
    \E i, j \in Calls :
       /\ req[i].t # req[j].t
       /\ req[i].slot # req[j].slot
       /\ req[i].res.kind = "ok" /\ req[j].res.kind = "ok"
       /\ pc[req[i].t] = "resolved" /\ cur[req[i].t] = i
       /\ pc[req[j].t] = "resolved" /\ cur[req[j].t] = j

\* ------------------------------------------------------------------ C3
\* C3: the server's reply to a Read(s) that timed out or was cancelled by the
\* shutdown never resolves a call that the same caller has made on the same
\* slot s after that Read returned.
C3_LateReplyNotDelivered ==
    \A i, j \in Calls :
       ( /\ j < i
         /\ req[i].t = req[j].t
         /\ req[j].kind = "read"
         /\ req[j].res.kind \in {"timeout", "closed"}
         /\ req[i].slot = req[j].slot )
       => req[i].res.re # j

\* ------------------------------------------------------------------ C4
\* C4: a Read, Write or Broadcast called with valid arguments after a Close()
\* has returned ends with a closed error (the failed write on the closed
\* connection or "client closed"), never with a success, an application error or
\* a timeout, and never blocks: not in the select and not on the mutex.
C4_ClosedAfterClose ==
    /\ \A i \in Calls :
         (req[i].afterClose /\ ValidArgs(i)) =>
            /\ req[i].res.kind \in {"none", "closed", "sendfail"}
            /\ ~req[i].waited
    /\ closeReturned => ~mutex

\* a call made after Close() returned has returned with the closed error
C4_Witness ==
    \E i \in Calls :
       /\ req[i].afterClose
       /\ req[i].state = "returned"
       /\ req[i].res.kind \in {"closed", "sendfail"}

\* ------------------------------------------------------------------ C5
\* C5: the connection is closed only after the shutdown signal has been raised
\* and listen() has left its loop, and listen() leaves its loop only after the
\* signal has been raised.
C5_CloseOrder ==
    /\ connClosed => (done /\ pc[Listener] = "exited")
    /\ pc[Listener] = "exited" => done

\* a Close() has closed the connection
C5_Witness == connClosed /\ closeReturned

\* ------------------------------------------------------------------ C8
\* C8: a Read or Write called with valid arguments after listen() has processed
\* a frame with an unknown tag fails with "client closed": it does not succeed
\* and it does not block in the select.
C8_ClosedAfterUnknownTag ==
    \A i \in Calls :
       (req[i].afterFatal = "unknown message type"
          /\ req[i].kind \in {"read", "write"}
          /\ ValidArgs(i))
       => /\ req[i].res.kind \in {"none", "closed"}
          /\ ~req[i].waited

\* a Read or Write made after the unknown tag has returned "client closed"
C8_Witness ==
    \E i \in Calls :
       /\ req[i].afterFatal = "unknown message type"
       /\ req[i].kind \in {"read", "write"}
       /\ req[i].state = "returned"
       /\ req[i].res.kind = "closed"

\* ------------------------------------------------------------------ C9
\* C9: when listen() dispatches a well-formed v frame whose slot has no entry in
\* the registry, the shutdown signal is not raised and listen() goes on to the
\* top of its loop to read the next frame.
C9_UnroutedNotFatal ==
    [][ ( /\ HasLine
          /\ Len(Head(wire).line) >= 4
          /\ Head(wire).line[1] = "v"
          /\ Atoi(SubSeq(Head(wire).line, 2, 4)).ok
          /\ Lookup(Atoi(SubSeq(Head(wire).line, 2, 4)).val) = 0
          /\ wire' = Tail(wire) )
        => ( /\ done' = done
             /\ panicked' = panicked
             /\ pc'[Listener] = "select" ) ]_vars

\* ----------------------------------------------------------------- C10
\* the message of the error table for the codes the server sends here
TableMessage(code) ==
    IF code = <<"0", "0", "7">> THEN "Slot locked" ELSE "Unknown error"

C1_RoundTripAnyData ==
    ( /\ req[1].kind = "write" /\ req[1].res.kind = "ok"
      /\ req[2].kind = "read" /\ req[2].slot = req[1].slot
      /\ req[2].res.kind = "ok" )
    => req[2].res.data = req[1].data

NoNewline(d) == \A k \in 1..Len(d) : d[k] # "\n"

\* C1: for every slot in [0,999] and every data d of at most 36 bytes that holds
\* no newline, the Read(s) that follows a successful Write(s, d) either times
\* out or succeeds, and when it succeeds it returns exactly d.
C1_RoundTrip ==
    ( /\ req[1].kind = "write" /\ req[1].res.kind = "ok"
      /\ NoNewline(req[1].data)
      /\ req[2].kind = "read" /\ req[2].slot = req[1].slot )
    => /\ req[2].res.kind \in {"none", "ok", "timeout"}
       /\ req[2].res.kind = "ok" => req[2].res.data = req[1].data

\* a Write of "ab" to slot 999 succeeded and the Read that followed returned "ab"
C1_Witness ==
    /\ req[1].kind = "write" /\ req[1].res.kind = "ok"
    /\ req[1].slot = 999 /\ req[1].data = <<"a", "b">>
    /\ req[2].kind = "read" /\ req[2].state = "returned"
    /\ req[2].res.kind = "ok" /\ req[2].res.data = <<"a", "b">>

\* ------------------------------------------------------------------ C6
\* C6: a Close() that a caller has begun on an open client returns (listen()
\* has exited and the connection is closed by then), unless the process has
\* died of a panic meanwhile.
C6_CloseReturns ==
    \A t \in Callers :
       (pc[t] = "closewait" /\ ~panicked) ~> (pc[t] = "idle" \/ panicked)

\* ------------------------------------------------------------------ C7
\* C7: once listen() has read a frame with an unknown tag, listen() exits and
\* the connection is closed, unless the process has died of a panic meanwhile.
C7_UnknownTagTerminates ==
    (fatalCause = "unknown message type" /\ ~panicked)
       ~> ((done /\ pc[Listener] = "exited" /\ connClosed) \/ panicked)

\* ----------------------------------------------------------------- C11
\* C11: the step in which listen() dispatches an e004 or e005 frame changes
\* neither the registry nor any call (its result, its channel, what was sent on
\* it, the control point of its caller), does not raise the shutdown signal, and
\* leaves listen() at the top of its loop.
C11_AuthErrorLogOnly ==
    [][ ( /\ HasLine
          /\ Len(Head(wire).line) >= 4
          /\ Head(wire).line[1] = "e"
          /\ SubSeq(Head(wire).line, 2, 4) \in
                { <<"0", "0", "4">>, <<"0", "0", "5">> }
          /\ wire' = Tail(wire) )
        => ( /\ pendingRequests' = pendingRequests
             /\ req' = req /\ chan' = chan /\ sent' = sent
             /\ \A t \in Callers : pc'[t] = pc[t]
             /\ done' = done /\ panicked' = panicked /\ mutex' = mutex
             /\ pc'[Listener] = "select" ) ]_vars

\* an e005 frame has just been dispatched with two calls registered, and both
\* are still registered and still blocked in their select
C11_Witness ==
    /\ pc[Listener] = "select"
    /\ lreg.code = <<"0", "0", "5">>
    /\ Cardinality(lreg.snap) = 2
    /\ \A i \in lreg.snap :
          /\ Lookup(req[i].slot) = i
          /\ pc[req[i].t] = "blocked" /\ cur[req[i].t] = i
          /\ sent[i] = << >>
    /\ ~done

\* ----------------------------------------------------------------- C12
\* C12: a Read blocked in its select that leaves it in a step in which nothing
\* is sent on its channel and the shutdown signal is not raised leaves it with
\* the timeout error; the text of that error differs from the text of every
\* closed-connection error and of every application error a call has returned;
\* and when a Read that timed out returns, the registry holds no entry for its
\* slot.
C12_ReadTimeout ==
    [][ /\ \A t \in Callers :
             ( /\ pc[t] = "blocked" /\ pc'[t] = "resolved"
               /\ req[cur[t]].kind = "read"
               /\ sent'[cur[t]] = sent[cur[t]]
               /\ done' = done )
             => req'[cur[t]].res = TimeoutRes
        /\ \A i, j \in Calls :
             ( /\ req[i].res.kind = "timeout"
               /\ req[j].res.kind \in {"closed", "sendfail", "error"} )
             => ErrorText(req[i].res) # ErrorText(req[j].res)
        /\ \A t \in Callers :
             ( /\ pc[t] = "resolved" /\ pc'[t] = "idle"
               /\ req[cur[t]].kind = "read"
               /\ req[cur[t]].res.kind = "timeout" )
             => req[cur[t]].slot \notin DOMAIN pendingRequests' ]_vars

\* a Read has timed out and returned, its slot has no entry, and another call
\* has returned an application error
C12_Witness ==
    \E i, j \in Calls :
       /\ req[i].kind = "read" /\ req[i].res.kind = "timeout"
       /\ req[i].waited /\ req[i].state = "returned"
       /\ pc[req[i].t] = "idle"
       /\ req[i].slot \notin DOMAIN pendingRequests
       /\ req[j].res.kind = "error"

\* ----------------------------------------------------------------- C13
\* C13: the step in which a Read, Write or Broadcast is called with a slot
\* below 0 or above 999, or a Write or Broadcast with data longer than 36, is
\* the whole call: it returns the validation error, writes nothing to the
\* connection, changes no registry entry and no channel, and leaves every
\* goroutine where it was.
C13_ValidationNoEffect ==
    [][ ( /\ nOps' = nOps + 1
          /\ \/ req'[nOps'].slot < 0
             \/ req'[nOps'].slot > 999
             \/ /\ req'[nOps'].kind \in {"write", "broadcast"}
                /\ Len(req'[nOps'].data) > 36 )
        => ( /\ req'[nOps'].res.kind \in {"badslot", "toolong"}
             /\ req'[nOps'].state = "returned"
             /\ pc' = pc
             /\ outbox' = outbox
             /\ pendingRequests' = pendingRequests
             /\ chan' = chan /\ sent' = sent ) ]_vars

\* a Write with data of 37 bytes was rejected while an earlier call is still
\* registered and blocked in its select
C13_Witness ==
    \E i, j \in Calls :
       /\ j < i
       /\ req[i].kind = "write" /\ Len(req[i].data) = 37
       /\ req[i].res.kind = "toolong"
       /\ Lookup(req[j].slot) = j
       /\ pc[req[j].t] = "blocked" /\ cur[req[j].t] = j

\* ----------------------------------------------------------------- C14
\* the payload is exactly three decimal numbers without sign, separated by "/"
IsTriple(d) ==
    /\ Len(d) > 0
    /\ \A k \in 1..Len(d) : d[k] = "/" \/ IsDigit(d[k])
    /\ Cardinality({ k \in 1..Len(d) : d[k] = "/" }) = 2
    /\ d[1] # "/" /\ d[Len(d)] # "/"
    /\ \A k \in 1..(Len(d) - 1) : ~(d[k] = "/" /\ d[k + 1] = "/")

\* C14: a Broadcast resolved by a v payload returns the three counts without
\* error exactly when the payload is three slash-separated non-negative decimal
\* integers, and the parse error for every other payload.
C14_BroadcastParse ==
    \A i \in Calls :
       (req[i].kind = "broadcast" /\ req[i].res.kind \in {"ok", "parse"})
       => (req[i].res.kind = "ok" <=> IsTriple(sent[i][1].Data))

\* ----------------------------------------------------------------- C15
\* C15: the step in which listen() meets a fatal error (read failure, unknown
\* tag, frame too short, ...) with the client still open releases every call
\* blocked in its select with "client closed"; from then on the shutdown signal
\* is raised, the mutex is free and no caller is blocked in a select, so that a
\* call in progress can always take its next step; and a call with valid
\* arguments made after the fatal error returns "client closed" without
\* blocking.
C15_FatalReleases ==
    [][ /\ (fatalCause' # fatalCause /\ ~panicked') =>
              \A t \in Callers :
                 pc[t] = "blocked" =>
                    /\ pc'[t] = "resolved"
                    /\ req'[cur[t]].res = ClosedRes
        /\ fatalCause' # "" =>
              /\ done' /\ ~mutex'
              /\ \A t \in Callers : pc'[t] # "blocked"
              /\ \A i \in Calls :
                    (req'[i].afterFatal # "" /\ ValidArgs(i)') =>
                       /\ req'[i].res.kind \in {"none", "closed"}
                       /\ ~req'[i].waited ]_vars

\* a frame too short was fatal while a call was blocked in its select, no
\* Close() was ever called, and the call has returned "client closed"
C15_Witness ==
    /\ fatalCause = "invalid value response format"
    /\ nClose = 0
    /\ \E i \in Calls :
          /\ req[i].afterFatal = ""
          /\ req[i].waited
          /\ req[i].res = ClosedRes
          /\ req[i].state = "returned"

\* ----------------------------------------------------------------- C16
\* C16: no call is left waiting for the mutex for ever: it never happens that a
\* call out of its select waits for the mutex to run its deferred delete while
\* listen() holds the mutex and is blocked in a send on a channel that is full
\* and that no goroutine will receive from.
C16_NoCallStuckOnMutex ==
    ~ ( /\ ~panicked
        /\ mutex
        /\ pc[Listener] = "esend"
        /\ chan[lreg.ch] # << >>
        /\ ~(pc[req[lreg.ch].t] = "registered" /\ cur[req[lreg.ch].t] = lreg.ch)
        /\ \E t \in Callers : pc[t] = "resolved" )

\* ----------------------------------------------------------------- C17
\* C17: when the dispatcher has delivered the payload of a v frame for slot s to
\* the call registered for s, the registry holds no entry for s.
C17_ValueRemovesEntry ==
    [][ \A i \in Calls :
           ( /\ pc[Listener] \in {"read", "vsend"}
             /\ Len(sent'[i]) = Len(sent[i]) + 1
             /\ sent'[i][Len(sent'[i])].Error = NilError )
           => sent'[i][Len(sent'[i])].fslot \notin DOMAIN pendingRequests' ]_vars

\* ----------------------------------------------------------------- C18
\* C18: over the whole execution at most one Response, payload or error, is
\* sent on the result channel of a call.
C18_AtMostOneResolution ==
    \A i \in Calls : Len(sent[i]) <= 1

\* ----------------------------------------------------------------- C19
InFlight(t) == pc[t] \in {"registered", "blocked", "resolved"}

\* C19: every registry entry is the channel of a call on that slot that has
\* registered and not yet returned; so the registry is empty whenever no call
\* is in flight.
C19_EntriesOfCallsInFlight ==
    /\ \A s \in DOMAIN pendingRequests :
          LET i == pendingRequests[s]
          IN  /\ req[i].slot = s
              /\ cur[req[i].t] = i
              /\ InFlight(req[i].t)
    /\ (\A t \in Callers : ~InFlight(t)) => DOMAIN pendingRequests = {}

\* no call is in flight and the registry is empty after one call has returned
\* a payload and another has returned from a failed send
C19_Witness ==
    /\ \A t \in Callers : pc[t] = "idle"
    /\ DOMAIN pendingRequests = {}
    /\ \E i, j \in Calls :
          /\ req[i].state = "returned" /\ req[i].res.kind = "ok"
          /\ req[j].state = "returned" /\ req[j].res.kind = "sendfail"

\* ----------------------------------------------------------------- C20
\* C20: no goroutine is ever blocked in a channel send while it holds the
\* mutex.
C20_NoBlockingUnderMutex ==
    ~(mutex /\ pc[Listener] = "esend")

\* ----------------------------------------------------------------- C21
\* C21: once a read of listen() has failed, listen() leaves its loop and
\* returns, unless the process has died of a panic meanwhile.
C21_ReadFailureExits ==
    (fatalCause = "read error" /\ ~panicked)
       ~> (pc[Listener] = "exited" \/ panicked)

\* ----------------------------------------------------------------- C22
\* C22: the step in which listen() dispatches a well-formed a frame calls the
\* handler that is set at that moment once, with the slot and the payload of
\* the frame, or calls nothing when no handler is set; it changes neither the
\* registry nor any call, and does not raise the shutdown signal.
C22_BroadcastToCurrentHandler ==
    [][ ( /\ HasLine
          /\ Len(Head(wire).line) >= 4
          /\ Head(wire).line[1] = "a"
          /\ \A k \in 2..4 : IsDigit(Head(wire).line[k])
          /\ wire' = Tail(wire) )
        => ( /\ IF broadcastHandler = 0
                THEN handled' = handled
                ELSE /\ Len(handled') = Len(handled) + 1
                     /\ SubSeq(handled', 1, Len(handled)) = handled
                     /\ handled'[Len(handled')].handler = broadcastHandler
                     /\ Fmt3(handled'[Len(handled')].slot) =
                           SubSeq(Head(wire).line, 2, 4)
                     /\ handled'[Len(handled')].data =
                           SubSeq(Head(wire).line, 5, Len(Head(wire).line))
             /\ pendingRequests' = pendingRequests
             /\ req' = req /\ chan' = chan /\ sent' = sent
             /\ \A t \in Callers : pc'[t] = pc[t]
             /\ done' = done /\ panicked' = panicked
             /\ pc'[Listener] = "select" ) ]_vars

\* handler 2 has been called once with slot 999 and payload "n/m" while the
\* Read on slot 1 is still registered and blocked
C22_Witness ==
    /\ handled = << [handler |-> 2, slot |-> 999, data |-> <<"n", "/", "m">>] >>
    /\ broadcastHandler = 2
    /\ Lookup(1) = 1
    /\ pc[1] = "blocked"
    /\ sent[1] = << >>

\* ----------------------------------------------------------------- C23
\* C23: on an open connection the first step of Auth() writes the user command and its second step
\* the password command, after which Auth() returns nil, whatever frames have
\* been dispatched meanwhile; neither step changes the registry, takes a frame
\* from the connection or touches a result channel.
C23_AuthSendsAndReturns ==
    [][ \A t \in Callers :
          /\ (pc[t] = "idle" /\ pc'[t] = "authpass") =>
                /\ outbox' = Append(outbox, [bytes |-> <<"u", "u", "\n">>, op |-> 0])
                /\ pendingRequests' = pendingRequests /\ wire' = wire
                /\ chan' = chan /\ sent' = sent
          /\ (pc[t] = "authpass" /\ pc'[t] # "authpass" /\ ~connClosed) =>
                /\ outbox' = Append(outbox, [bytes |-> <<"p", "s", "\n">>, op |-> 0])
                /\ pc'[t] = "idle"
                /\ req'[cur[t]].res.kind = "ok"
                /\ req'[cur[t]].state = "returned"
                /\ pendingRequests' = pendingRequests /\ wire' = wire
                /\ chan' = chan /\ sent' = sent ]_vars

\* an Auth() has returned nil after listen() dispatched an e005 frame, while a
\* Read registered before it is still registered and blocked
C23_Witness ==
    \E i, j \in Calls :
       /\ req[i].kind = "auth" /\ req[i].state = "returned"
       /\ req[i].res.kind = "ok"
       /\ lreg.code = <<"0", "0", "5">>
       /\ req[j].kind = "read" /\ j < i
       /\ Lookup(req[j].slot) = j
       /\ pc[req[j].t] = "blocked"

\* ----------------------------------------------------------------- C24
\* C24: when listen() dispatches a v frame whose payload, the line after the
\* tag and the three slot digits, equals the configured user name, the frame is
\* dropped: nothing is sent on a result channel, no call is resolved, the
\* registry is unchanged, no fatal error is raised and listen() goes on with
\* the next line.
C24_EchoDiscarded ==
    [][ ( /\ HasLine
          /\ Len(Head(wire).line) >= 4
          /\ Head(wire).line[1] = "v"
          /\ From(Head(wire).line, 4) = User
          /\ wire' = Tail(wire) )
        => ( /\ pendingRequests' = pendingRequests
             /\ chan' = chan /\ sent' = sent /\ req' = req
             /\ fatalCause' = fatalCause /\ done' = done
             /\ pc'[Listener] = "select" ) ]_vars

\* ----------------------------------------------------------------- C25
\* C25: the deferred delete of a call that returns removes no registry entry
\* of another call: an entry that belongs to a different call, registered on
\* the same slot meanwhile and still blocked in its select, is in the registry
\* after the return as it was before.
C25_DeregisterOwnEntryOnly ==
    [][ \A t \in Callers :
           (pc[t] = "resolved" /\ pc'[t] = "idle")
           => \A s \in DOMAIN pendingRequests :
                 LET j == pendingRequests[s]
                 IN  (j # cur[t] /\ pc[req[j].t] = "blocked" /\ cur[req[j].t] = j)
                     => (s \in DOMAIN pendingRequests' /\ pendingRequests'[s] = j)
      ]_vars

\* ----------------------------------------------------------------- C26
\* C26: c.done is closed at most once in any execution: no goroutine runs
\* close(c.done) on the channel once it is closed, which would panic, whether
\* the first close came from handleFatalError and the second from a caller's
\* Close() or the other way round.
C26_DoneClosedOnce == ~panicked

\* ----------------------------------------------------------------- C27
\* C27: once c.done is closed, a line that listen() reads is not dispatched:
\* nothing is sent on a result channel, no call is resolved, no broadcast
\* handler is called and no fatal error is raised for it.
C27_NoDispatchAfterDone ==
    [][ (done /\ HasLine /\ wire' = Tail(wire))
        => ( /\ chan' = chan /\ sent' = sent /\ req' = req
             /\ handled' = handled
             /\ fatalCause' = fatalCause
             /\ panicked' = panicked
             /\ pc'[Listener] \in {"select", "return", "exited"} ) ]_vars

\* ----------------------------------------------------------------- C28
\* C28: listen() is never blocked in the send of handleValueResponse on a
\* channel that no goroutine will receive from: a channel whose buffer is full
\* and whose call has returned to its caller.  Such a send never completes, and
\* listen() never reads another line.
C28_NoSendWithoutReceiver ==
    ~ ( /\ ~panicked
        /\ pc[Listener] = "vsend"
        /\ chan[lreg.ch] # << >>
        /\ req[lreg.ch].state = "returned" )

====
